---- MODULE Spec2Model ----
(***************************************************************************)
(* Model of src/etl.py: the ETL pipeline that reads user ids from a CSV,   *)
(* fetches each user from the remote API, appends one generated news item  *)
(* per user, writes the CSV report and pushes every user back with PUT.    *)
(*                                                                         *)
(* Texts are sequences of one-character strings, so that clean_text and    *)
(* the [:100] slice are computed character by character.  An accented      *)
(* letter of the source counts as one character and is written unaccented. *)
(***************************************************************************)
EXTENDS Integers, Sequences, FiniteSets, TLC

VARIABLES
    pc,            \* position of main(): which statement runs next
    settings,      \* Settings: only gemini_api_key matters to control flow
    csv,           \* the identity file: has the id column or not, and its cells
    user_ids,      \* main.user_ids
    idx,           \* index of the current loop (fetch, generate, update)
    users,         \* main.users, the batch
    ok_count,      \* main.ok_count
    report,        \* rows of the report file on disk (<<>> before it is written)
    report_writes, \* number of times save_report_csv wrote the file
    get_log,       \* history: one entry per requests.get call
    gen_log,       \* history: one entry per generate_content call
    put_log,       \* history: one entry per requests.put call
    summary,       \* the "ok_count/len(users)" pair printed by done(), or <<>>
    abort          \* <<>> or the exception that ended the run and where it rose

vars == <<pc, settings, csv, user_ids, idx, users, ok_count, report,
          report_writes, get_log, gen_log, put_log, summary, abort>>

-----------------------------------------------------------------------------
(* Bounds of the model *)

MaxIds == 2
MaxNameLen == 2
MaxNews == 3

(* Program constants *)

MaxTextLen == 100
HTTP_OK == 200
HTTP_NOT_FOUND == 404
HTTP_SERVER_ERROR == 500

None == [none |-> TRUE]

-----------------------------------------------------------------------------
(* Text helpers *)

Rep(n, c) == [i \in 1..n |-> c]

Take(s, n) == SubSeq(s, 1, IF Len(s) < n THEN Len(s) ELSE n)

\* the backquote character (a backquote cannot be written inside a string here)
Backtick == "BACKTICK"

IsSpace(c) == c \in {" ", "\n"}

RECURSIVE LStrip(_)
LStrip(s) ==
    IF s = <<>> THEN s
    ELSE IF IsSpace(Head(s)) THEN LStrip(Tail(s)) ELSE s

RECURSIVE RStrip(_)
RStrip(s) ==
    IF s = <<>> THEN s
    ELSE IF IsSpace(s[Len(s)]) THEN RStrip(SubSeq(s, 1, Len(s) - 1)) ELSE s

Strip(s) == RStrip(LStrip(s))

\* the characters of s at the positions i with keep[i], in order
Filter(s, keep) ==
    LET tagged == [i \in 1..Len(s) |-> <<s[i], keep[i]>>]
        sel    == SelectSeq(tagged, LAMBDA p : p[2])
    IN  [i \in 1..Len(sel) |-> sel[i][1]]

\* str.replace(c, "") for a single character c
RemoveChar(s, c) == SelectSeq(s, LAMBDA x : x # c)

\* number of consecutive c immediately before position i
RECURSIVE RunBefore(_, _, _)
RunBefore(s, i, c) ==
    IF i = 1 THEN 0
    ELSE IF s[i - 1] # c THEN 0 ELSE 1 + RunBefore(s, i - 1, c)

\* str.replace(c + c, ""): the scan removes the leftmost non-overlapping
\* pairs, so of a run of c only the last one of an odd run survives
RemovePair(s, c) ==
    Filter(s, [i \in 1..Len(s) |->
                  \/ s[i] # c
                  \/ /\ RunBefore(s, i, c) % 2 = 0
                     /\ (i = Len(s) \/ s[i + 1] # c)])

\* re.sub(r"\s+", " ", text): each maximal run of whitespace becomes one space
CollapseSpaces(s) ==
    LET t == [i \in 1..Len(s) |-> IF IsSpace(s[i]) THEN " " ELSE s[i]]
    IN  Filter(t, [i \in 1..Len(s) |->
                      ~IsSpace(s[i]) \/ i = 1 \/ ~IsSpace(s[i - 1])])

clean_text(text) ==
    LET t1 == Strip(text)
        t2 == RemovePair(t1, "*")
        t3 == RemovePair(t2, "_")
        t4 == RemoveChar(t3, Backtick)
        t5 == RemoveChar(t4, "*")
    IN  Strip(CollapseSpaces(t5))

FallbackSuffix ==
    <<",", " ", "i", "n", "v", "e", "s", "t", "i", "r", " ", "c", "o", "m",
      " ", "c", "o", "n", "s", "i", "s", "t", "e", "n", "c", "i", "a", " ",
      "f", "o", "r", "t", "a", "l", "e", "c", "e", " ", "s", "e", "u", " ",
      "f", "u", "t", "u", "r", "o", " ", "f", "i", "n", "a", "n", "c", "e",
      "i", "r", "o", ".">>

\* f"{nome}, investir com consistencia fortalece seu futuro financeiro."
FallbackMessage(nome) == nome \o FallbackSuffix

-----------------------------------------------------------------------------
(* Records (API users) *)

Conta(uid) == [agencia |-> "0001", numero |-> uid, balanco |-> 100 * uid,
               limite |-> 500]

NewsItem(id, descricao) == [id |-> id, icone |-> "icon", descricao |-> descricao]

\* user.get("news", []) or []
NewsOf(u) == IF u.has_news THEN u.news ELSE <<>>

RECURSIVE MaxId(_)
MaxId(news_list) ==
    IF Len(news_list) = 1 THEN news_list[1].id
    ELSE LET m == MaxId(Tail(news_list))
         IN  IF news_list[1].id > m THEN news_list[1].id ELSE m

\* faulty variant of next_news_id: the id is taken from the number of items
next_news_id_by_count(u) == Len(NewsOf(u)) + 1

next_news_id(u) ==
    LET news_list == NewsOf(u)
    IN  IF news_list = <<>> THEN 1 ELSE MaxId(news_list) + 1

\* the reply of the service to generate_content: a text, or an exception
generate_ai_news_gemini(nome, reply) ==
    CASE reply.kind = "text" ->
            LET text == clean_text(reply.text)
            IN  Take(IF text = <<>> THEN FallbackMessage(nome) ELSE text,
                     MaxTextLen)
      [] reply.kind = "APIError" ->
            Take(clean_text(FallbackMessage(nome)), MaxTextLen)
      [] OTHER ->
            Take(clean_text(FallbackMessage(nome)), MaxTextLen)

\* body of the loop of transform_add_news_gemini, for one user
\* faulty variant of add_news: the list is replaced by the new item
add_news_replacing(u, msg) ==
    [u EXCEPT !.has_news = TRUE, !.news = <<NewsItem(next_news_id(u), msg)>>]

add_news(u, msg) ==
    [u EXCEPT !.has_news = TRUE,
              !.news = Append(NewsOf(u), NewsItem(next_news_id(u), msg))]

\* faulty variant of ReportRow: the first item is taken, not the last
ReportRow_first(u) ==
    LET news_list == NewsOf(u)
        last_news == IF news_list = <<>> THEN <<>> ELSE news_list[1].descricao
    IN  [user_id |-> u.id, nome |-> u.nome, agencia |-> u.conta.agencia,
         conta |-> u.conta.numero, balanco |-> u.conta.balanco,
         limite |-> u.conta.limite, qtd_news_total |-> Len(news_list),
         ultima_news |-> clean_text(last_news)]

\* one row of save_report_csv
ReportRow(u) ==
    LET news_list == NewsOf(u)
        last_news == IF news_list = <<>> THEN <<>>
                     ELSE news_list[Len(news_list)].descricao
    IN  [user_id |-> u.id, nome |-> u.nome, agencia |-> u.conta.agencia,
         conta |-> u.conta.numero, balanco |-> u.conta.balanco,
         limite |-> u.conta.limite, qtd_news_total |-> Len(news_list),
         ultima_news |-> clean_text(last_news)]

save_report_csv(batch) == [i \in 1..Len(batch) |-> ReportRow(batch[i])]

\* get_user on a response of the API: the parsed body, or None
get_user(resp) ==
    IF resp.status = HTTP_OK THEN resp.body
    ELSE IF resp.status = HTTP_NOT_FOUND THEN None
    ELSE None

\* faulty variant of Truthy: every result of get_user is kept
Truthy_always(u) == TRUE

\* "if u:" in main
Truthy(u) == u # None

\* faulty variant of update_user: every answer counts as a success
update_user_always(resp) == TRUE

\* update_user on a response of the API
update_user(resp) == resp.status = HTTP_OK

\* faulty variant of NoValidUsers: the empty batch is not detected
NoValidUsers_never(batch) == FALSE

\* "if not users:" in main
NoValidUsers(batch) == batch = <<>>

\* df[col].dropna().astype(int).tolist()
RECURSIVE DropNa(_)
DropNa(cells) ==
    IF cells = <<>> THEN <<>>
    ELSE IF Head(cells) = "NaN" THEN DropNa(Tail(cells))
    ELSE <<Head(cells)>> \o DropNa(Tail(cells))

-----------------------------------------------------------------------------
(* Inputs: the identity file, the remote API and the generation service *)

Ids == {1, 2, 999}

Cells == {"1", "2", "999", "NaN"}

\* astype(int) on one cell
ToInt(cell) == CASE cell = "1" -> 1 [] cell = "2" -> 2 [] OTHER -> 999

SeqsUpTo(S, n) == UNION {[1..k -> S] : k \in 0..n}

OldText == <<"o", "l", "d">>

NewsWithIds(ids) == [i \in 1..Len(ids) |-> NewsItem(ids[i], OldText)]

User(uid, nome, has_news, ids) ==
    [id |-> uid, nome |-> nome, conta |-> Conta(uid), has_news |-> has_news,
     news |-> NewsWithIds(ids)]

\* what the remote API holds for each id
RemoteUser(uid) ==
    CASE uid = 1 -> User(1, <<"A", "n", "a">>, TRUE, <<>>)
      [] uid = 2 -> User(2, <<"B", "i", "a">>, TRUE, <<1, 2, 4>>)
      [] OTHER   -> User(uid, <<"Z", "e">>, FALSE, <<>>)

Response(status, body) == [kind |-> "response", status |-> status, body |-> body]

Raise(exc) == [kind |-> exc]

\* outcomes of requests.get for one id
GetOutcomes(uid) ==
    {Response(HTTP_OK, RemoteUser(uid)), Response(HTTP_NOT_FOUND, None),
     Response(HTTP_SERVER_ERROR, None), Raise("ConnectionError")}

\* outcomes of requests.put
PutOutcomes ==
    {Response(HTTP_OK, None), Response(HTTP_SERVER_ERROR, None),
     Raise("ConnectionError")}

Text(t) == [kind |-> "text", text |-> t]

\* 101 characters whose 100th is a space
LongText == Rep(99, "x") \o <<" ", "y">>

\* outcomes of generate_content in the whole pipeline
PipelineReplies ==
    {Text(<<>>), Text(LongText), Raise("APIError"), Raise("Exception")}

-----------------------------------------------------------------------------
(* The run of main() *)

Abort(exc, from) ==
    /\ pc' = "Aborted"
    /\ abort' = [error |-> exc, from |-> from]

Init ==
    /\ pc = "LoadingIdentifiers"
    /\ settings \in [gemini_api_key : BOOLEAN]
    /\ csv \in [has_col : BOOLEAN, cells : SeqsUpTo(Cells, MaxIds)]
    /\ user_ids = <<>>
    /\ idx = 0
    /\ users = <<>>
    /\ ok_count = 0
    /\ report = <<>>
    /\ report_writes = 0
    /\ get_log = <<>>
    /\ gen_log = <<>>
    /\ put_log = <<>>
    /\ summary = <<>>
    /\ abort = <<>>

\* read_user_ids, called from main
ReadUserIds ==
    /\ pc = "LoadingIdentifiers"
    /\ LET kept == DropNa(csv.cells)
           ids  == [i \in 1..Len(kept) |-> ToInt(kept[i])]
       IN  IF ~csv.has_col
           THEN Abort("ValueError: missing column", "LoadingIdentifiers")
                /\ UNCHANGED <<user_ids, idx>>
           ELSE IF ids = <<>>
           THEN Abort("ValueError: no ids", "LoadingIdentifiers")
                /\ UNCHANGED <<user_ids, idx>>
           ELSE /\ user_ids' = ids
                /\ idx' = 1
                /\ pc' = "Fetching"
                /\ UNCHANGED abort
    /\ UNCHANGED <<settings, csv, users, ok_count, report, report_writes,
                   get_log, gen_log, put_log, summary>>

\* one iteration of "for uid in user_ids"
FetchOne ==
    /\ pc = "Fetching"
    /\ idx <= Len(user_ids)
    /\ \E out \in GetOutcomes(user_ids[idx]) :
          /\ get_log' = Append(get_log, [uid |-> user_ids[idx], outcome |-> out])
          /\ IF out.kind # "response"
             THEN Abort(out.kind, "Fetching") /\ UNCHANGED <<users, idx>>
             ELSE /\ users' = IF Truthy(get_user(out))
                              THEN Append(users, get_user(out)) ELSE users
                  /\ idx' = idx + 1
                  /\ UNCHANGED <<pc, abort>>
    /\ UNCHANGED <<settings, csv, user_ids, ok_count, report, report_writes,
                   gen_log, put_log, summary>>

\* after the fetch loop: "if not users: raise RuntimeError"
CheckUsers ==
    /\ pc = "Fetching"
    /\ idx > Len(user_ids)
    /\ IF NoValidUsers(users)
       THEN Abort("RuntimeError: no valid users", "Fetching") /\ UNCHANGED idx
       ELSE pc' = "Generating" /\ idx' = 0 /\ UNCHANGED abort
    /\ UNCHANGED <<settings, csv, user_ids, users, ok_count, report,
                   report_writes, get_log, gen_log, put_log, summary>>

\* transform_add_news_gemini up to the creation of the client
TransformInit ==
    /\ pc = "Generating"
    /\ idx = 0
    /\ IF ~settings.gemini_api_key
       THEN Abort("ValueError: GEMINI_API_KEY", "Generating") /\ UNCHANGED idx
       ELSE idx' = 1 /\ UNCHANGED <<pc, abort>>
    /\ UNCHANGED <<settings, csv, user_ids, users, ok_count, report,
                   report_writes, get_log, gen_log, put_log, summary>>

\* one iteration of "for u in users" of transform_add_news_gemini
GenerateOne(replies) ==
    /\ pc = "Generating"
    /\ idx >= 1
    /\ idx <= Len(users)
    /\ \E reply \in replies :
          LET u   == users[idx]
              msg == generate_ai_news_gemini(u.nome, reply)
          IN  /\ users' = [users EXCEPT ![idx] = add_news(u, msg)]
              /\ gen_log' = Append(gen_log, [nome |-> u.nome, reply |-> reply,
                                             msg |-> msg, before |-> u])
    /\ idx' = idx + 1
    /\ UNCHANGED <<pc, settings, csv, user_ids, ok_count, report,
                   report_writes, get_log, put_log, summary, abort>>

\* client.close() and the return of transform_add_news_gemini
TransformEnd ==
    /\ pc = "Generating"
    /\ idx > Len(users)
    /\ pc' = "Reporting"
    /\ UNCHANGED <<settings, csv, user_ids, idx, users, ok_count, report,
                   report_writes, get_log, gen_log, put_log, summary, abort>>

\* save_report_csv(users, ...) and "ok_count = 0"
SaveReport ==
    /\ pc = "Reporting"
    /\ report' = save_report_csv(users)
    /\ report_writes' = report_writes + 1
    /\ ok_count' = 0
    /\ idx' = 1
    /\ pc' = "Updating"
    /\ UNCHANGED <<settings, csv, user_ids, users, get_log, gen_log, put_log,
                   summary, abort>>

\* one iteration of the update loop
UpdateOne ==
    /\ pc = "Updating"
    /\ idx <= Len(users)
    /\ \E out \in PutOutcomes :
          /\ put_log' = Append(put_log, [user |-> users[idx], outcome |-> out])
          /\ IF out.kind # "response"
             THEN Abort(out.kind, "Updating") /\ UNCHANGED <<ok_count, idx>>
             ELSE /\ ok_count' = IF update_user(out) THEN ok_count + 1
                                 ELSE ok_count
                  /\ idx' = idx + 1
                  /\ UNCHANGED <<pc, abort>>
    /\ UNCHANGED <<settings, csv, user_ids, users, report, report_writes,
                   get_log, gen_log, summary>>

\* done(f"... {ok_count}/{len(users)}")
Finish ==
    /\ pc = "Updating"
    /\ idx > Len(users)
    /\ summary' = <<ok_count, Len(users)>>
    /\ pc' = "Done"
    /\ UNCHANGED <<settings, csv, user_ids, idx, users, ok_count, report,
                   report_writes, get_log, gen_log, put_log, abort>>

Next ==
    \/ ReadUserIds
    \/ FetchOne
    \/ CheckUsers
    \/ TransformInit
    \/ GenerateOne(PipelineReplies)
    \/ TransformEnd
    \/ SaveReport
    \/ UpdateOne
    \/ Finish

Spec == Init /\ [][Next]_vars

-----------------------------------------------------------------------------
(* The enrichment of one fetched user, over a wide range of names, news   *)
(* lists and replies of the generation service: the run of main() from    *)
(* the end of the fetch loop, with a batch of one user.                    *)

NameChars == {"A", " ", "*", "_", Backtick}

\* a short name, alone or followed by 39 more letters: with the 60
\* characters of the fallback suffix the message has up to 101 characters
NamePads == {0, 39}

Names ==
    {core \o Rep(pad, "x") : core \in SeqsUpTo(NameChars, MaxNameLen),
                             pad \in NamePads}

NewsIds == {1, 2, 4}

EnrichUsers ==
    {User(1, nome, TRUE, <<1, 2, 4>>) : nome \in Names}
    \cup {User(1, <<"A", "n", "a">>, TRUE, ids) :
             ids \in SeqsUpTo(NewsIds, MaxNews)}
    \cup {User(1, <<"A", "n", "a">>, FALSE, <<>>)}

EnrichReplies ==
    {Text(<<>>), Text(<<" ", "\n">>), Text(<<"O", "i">>),
     Text(<<"_", Backtick, "_">>),
     Text(<<"*", "*", "O", "i", "*", "*", " ", "\n", "a", "_", "_", "_">>),
     Text(LongText), Text(Rep(MaxTextLen + 20, "z")),
     Raise("APIError"), Raise("Exception")}

InitEnrich ==
    /\ pc = "Fetching"
    /\ settings = [gemini_api_key |-> TRUE]
    /\ \E u \in EnrichUsers :
          /\ csv = [has_col |-> TRUE, cells |-> <<"1">>]
          /\ user_ids = <<u.id>>
          /\ users = <<u>>
          /\ get_log = <<[uid |-> u.id, outcome |-> Response(HTTP_OK, u)]>>
    /\ idx = 2
    /\ ok_count = 0
    /\ report = <<>>
    /\ report_writes = 0
    /\ gen_log = <<>>
    /\ put_log = <<>>
    /\ summary = <<>>
    /\ abort = <<>>

NextEnrich ==
    \/ CheckUsers
    \/ TransformInit
    \/ GenerateOne(EnrichReplies)
    \/ TransformEnd
    \/ SaveReport
    \/ UpdateOne
    \/ Finish

SpecEnrich == InitEnrich /\ [][NextEnrich]_vars

-----------------------------------------------------------------------------
(* Helpers of the properties *)

IsResponse(out) == out.kind = "response"

Answered200(e) == IsResponse(e.outcome) /\ e.outcome.status = HTTP_OK

\* the records returned by the lookups that answered 200, in lookup order
FetchedRecords ==
    LET hits == SelectSeq(get_log, Answered200)
    IN  [i \in 1..Len(hits) |-> hits[i].outcome.body]

\* the number of update requests answered 200
Updated200 == Len(SelectSeq(put_log, Answered200))

LastNews(u) == NewsOf(u)[Len(NewsOf(u))]

\* every identifier was looked up and none of the lookups answered 200
AllLookupsFailed ==
    /\ user_ids # <<>>
    /\ Len(get_log) = Len(user_ids)
    /\ \A i \in 1..Len(get_log) :
          IsResponse(get_log[i].outcome) /\ ~Answered200(get_log[i])

-----------------------------------------------------------------------------
(* Properties *)

\* C1: a network or timeout failure of one lookup is handled like "not
\* found": the run is never ended by it, so every later identifier is still
\* looked up and the run aborts from Fetching only with an empty batch after
\* all identifiers were attempted.
C1_TransportFailureSkipsIdentifier ==
    /\ \A i \in 1..Len(get_log) :
          ~IsResponse(get_log[i].outcome) => (pc = "Fetching" \/ Len(get_log) = Len(user_ids))
    /\ (pc = "Aborted" /\ abort.from = "Fetching")
          => (users = <<>> /\ Len(get_log) = Len(user_ids))

\* C2: a network failure of one update is counted as a failed update: the
\* run is not ended by it, every record of the batch gets its update request
\* and at Done the success counter counts the answers 200 only.
C2_TransportFailureCountsAsFailedUpdate ==
    /\ ~(pc = "Aborted" /\ abort.from = "Updating")
    /\ \A i \in 1..Len(put_log) :
          ~IsResponse(put_log[i].outcome) => pc \in {"Updating", "Done"}
    /\ pc = "Done" => (Len(put_log) = Len(users) /\ summary[1] = Updated200)

\* C3: the run can end in Aborted only while loading identifiers or while
\* fetching, whatever the configuration and whatever the services answer.
C3_AbortOnlyFromLoadingOrFetching ==
    pc = "Aborted" => abort.from \in {"LoadingIdentifiers", "Fetching"}

\* C4: while fetching and at its end, the batch is exactly the sequence of
\* records returned by the lookups that answered 200, in file order and one
\* entry per lookup; a lookup answering 404 or another status adds no entry,
\* no None placeholder, and the lookups go on after it.
C4_BatchIsTheRecordsAnswered200 ==
    pc = "Fetching" =>
        /\ Len(get_log) = idx - 1
        /\ \A i \in 1..Len(get_log) : get_log[i].uid = user_ids[i]
        /\ users = FetchedRecords
        /\ \A i \in 1..Len(users) : users[i] # None

C4_Witness ==
    /\ pc = "Fetching"
    /\ idx > Len(user_ids)
    /\ Len(get_log) = 2
    /\ get_log[1].outcome.status = HTTP_SERVER_ERROR
    /\ get_log[2].outcome.status = HTTP_OK
    /\ Len(users) = 1

\* C5: when the generation service raises an error, the text of the appended
\* item is the fallback message for the name of the record cut to 100
\* characters, and it is the text the empty-response path gives for that name.
C5_ErrorTextIsTheFallback ==
    \A i \in 1..Len(gen_log) :
        gen_log[i].reply.kind \in {"APIError", "Exception"} =>
            /\ LastNews(users[i]).descricao = gen_log[i].msg
            /\ gen_log[i].msg = Take(FallbackMessage(gen_log[i].nome), MaxTextLen)
            /\ gen_log[i].msg = generate_ai_news_gemini(gen_log[i].nome, Text(<<>>))

\* C6: the item appended by enrichment has id 1 + the maximum id of the
\* items the record held before, or 1 when it held none; the id is new to
\* the record and the items held before stay, unchanged and in order,
\* before the new one.
C6_NewIdIsMaxPlusOne ==
    \A i \in 1..Len(gen_log) :
        LET before == NewsOf(gen_log[i].before)
            after  == NewsOf(users[i])
            new    == after[Len(after)]
        IN  /\ Len(after) = Len(before) + 1
            /\ SubSeq(after, 1, Len(before)) = before
            /\ before = <<>> => new.id = 1
            /\ before # <<>> =>
                  /\ \E j \in 1..Len(before) : new.id = before[j].id + 1
                  /\ \A j \in 1..Len(before) : before[j].id < new.id
            /\ \A j \in 1..Len(before) : before[j].id # new.id

C6_Witness ==
    /\ Len(gen_log) = 1
    /\ Len(NewsOf(gen_log[1].before)) = 3
    /\ gen_log[1].before.news[1].id = 1
    /\ gen_log[1].before.news[2].id = 4
    /\ gen_log[1].before.news[3].id = 2
    /\ LastNews(users[1]).id = 5

\* C7: when every lookup answers 404 or another status than 200, the batch
\* is empty after all lookups, the next step ends the run in Aborted with
\* the no-valid-users error, and no generation request, report write or
\* update request is ever made.
C7_NoRecordAnswered200Aborts ==
    [][AllLookupsFailed =>
          /\ users = <<>> /\ gen_log = <<>> /\ put_log = <<>>
          /\ report_writes = 0
          /\ pc' = "Aborted"
          /\ abort'.error = "RuntimeError: no valid users"
          /\ users' = <<>> /\ gen_log' = <<>> /\ put_log' = <<>>
          /\ report_writes' = 0]_vars

C7_Witness ==
    /\ AllLookupsFailed
    /\ Len(user_ids) = 2
    /\ get_log[1].outcome.status = HTTP_NOT_FOUND
    /\ get_log[2].outcome.status = HTTP_SERVER_ERROR
    /\ pc = "Aborted"

\* the report was written once, after the enrichment of every record and
\* before any update request
ReportWrittenOnceInBetween ==
    /\ report_writes <= 1
    /\ report_writes = 1 <=>
          (pc \in {"Updating", "Done"} \/ (pc = "Aborted" /\ abort.from = "Updating"))
    /\ report_writes = 1 => (Len(gen_log) = Len(users) /\ Len(report) = Len(users))
    /\ put_log # <<>> => report_writes = 1

\* C8 as stated: the report is written once, between the enrichment and the
\* updates, and the content it records for each record is the content sent
\* in the update request of that record.
C8_ReportRecordsTheContentSent ==
    /\ ReportWrittenOnceInBetween
    /\ \A i \in 1..Len(put_log) :
          /\ report[i].user_id = put_log[i].user.id
          /\ report[i].qtd_news_total = Len(NewsOf(put_log[i].user))
          /\ report[i].ultima_news = LastNews(put_log[i].user).descricao

\* C8 amended: the report is written once, between the enrichment and the
\* updates; for each record it records the number of items sent in the
\* update request and the text of the last item sent after clean_text
\* (markdown markers removed, whitespace collapsed and trimmed).
C8_ReportRecordsTheCleanedContentSent ==
    /\ ReportWrittenOnceInBetween
    /\ \A i \in 1..Len(put_log) :
          /\ report[i].user_id = put_log[i].user.id
          /\ report[i].qtd_news_total = Len(NewsOf(put_log[i].user))
          /\ report[i].ultima_news = clean_text(LastNews(put_log[i].user).descricao)

C8_Witness ==
    /\ pc = "Done"
    /\ Len(put_log) = 2
    /\ report_writes = 1
    /\ LastNews(put_log[1].user).descricao = Take(LongText, MaxTextLen)
    /\ gen_log[2].reply.kind = "APIError"

\* C9: the report has one row per fetched record, duplicates included, and
\* each row's qtd_news_total is the number of items the record had when it
\* was fetched plus 1.
C9_ReportRowsCountOriginalPlusOne ==
    report_writes >= 1 =>
        /\ Len(report) = Len(FetchedRecords)
        /\ Len(report) >= 1
        /\ \A i \in 1..Len(report) :
              /\ report[i].user_id = FetchedRecords[i].id
              /\ report[i].qtd_news_total = Len(NewsOf(FetchedRecords[i])) + 1

C9_Witness ==
    /\ report_writes = 1
    /\ user_ids = <<2, 2>>
    /\ Len(report) = 2
    /\ report[1].qtd_news_total = 4
    /\ report[2].qtd_news_total = 4

\* C10: when every update request gets a response, each record of the batch
\* is sent one update request, in batch order, whatever the earlier answers;
\* at Done the success count is the number of answers 200 and the total is
\* the size of the batch.
C10_SummaryCountsAnswers200 ==
    pc \in {"Updating", "Done"} =>
        /\ Len(put_log) = idx - 1
        /\ \A i \in 1..Len(put_log) : put_log[i].user = users[i]
        /\ pc = "Done" =>
              /\ Len(put_log) = Len(users)
              /\ summary = <<Updated200, Len(users)>>

C10_Witness ==
    /\ pc = "Done"
    /\ Len(users) = 2
    /\ put_log[1].outcome.status = HTTP_SERVER_ERROR
    /\ put_log[2].outcome.status = HTTP_OK
    /\ summary = <<1, 2>>

====
